---- MODULE Spec2Model ----
(***************************************************************************)
(* usebin: HTTP <-> NNTP gateway.                                          *)
(* Model of the NNTP connection pool (Pool.Get / Put / Close and the       *)
(* controller goroutine Pool.loop), of the request handlers that borrow    *)
(* connections from it, of the dispatch of requests to the handlers, of   *)
(* the Range engine the buffered GET handler answers with, of the article  *)
(* header the POST handler makes, and of requests whose client goes away.  *)
(***************************************************************************)
EXTENDS Integers, Sequences, FiniteSets, Bags, TLC

\* ---------------------------------------------------------------- bounds
NumWorkers == 3        \* concurrent request goroutines, pool runs
MaxPoolRequests == 3   \* HTTP requests served in a pool run
HandlerWorkers == 2    \* concurrent request goroutines, handler runs
MaxRequests == 2       \* HTTP requests served in a handler run
MaxSelServers == 3     \* longest server list of the selection walk
MaxBody == 2           \* longest article body, in bytes
MaxRangeLen == 5       \* longest Range header, in characters after "bytes="
MaxIdPart == 2         \* longest local part and host of a Message-ID
MaxIdle == 3           \* longest idle list of a purge run
MaxAge == 2            \* oldest idle entry of a purge run, in clock ticks

\* ------------------------------------------------------- configuration
NumServers == 2        \* len(p.servers) of the running pool
Connections == 1       \* NNTPServer.Connections of every server
IdleConnExpiry == 1    \* Pool.idleExpiry, in clock ticks

Workers == 1..NumWorkers
Nil == 0               \* the nil *nntp.Conn
NoMore == -1           \* Pool.Get found no server: nothing is sent

VARIABLES
    servers,    \* Pool.servers: sequence of [Posting, Connections]
    connMap,    \* loop: connMap, set of [conn, i]: conn -> server index
    idles,      \* loop: idles[i], sequence of [conn, age]; age is
                \* time.Now() - idleStart; the clock stops counting an
                \* entry's age once it has reached IdleConnExpiry
    counters,   \* loop: counters[i] (uint64, two's complement reading)
    queue,      \* loop: queue[i], sequence of poolGet
    allocs,     \* bag of poolGet whose newConn goroutine is running
    ctl,        \* "select" or "stuck" (blocked for ever in a channel send)
    nextConn,   \* identity of the next connection newConn creates
    wk,         \* per request goroutine: the handler's locals and position
    nreq,       \* number of HTTP requests started
    env,        \* the request mix offered to the server in this run
    sel,        \* inputs and result of one Pool.Get selection walk
    rng,        \* a Range header, a body size and the response to them
    hdr         \* a POST request's header inputs and the article header

vars == <<servers, connMap, idles, counters, queue, allocs, ctl, nextConn,
          wk, nreq, env, sel, rng, hdr>>

NumSrv == Len(servers)
SrvIdx == 0..(NumSrv - 1)

\* counters[i] is a uint64: a negative Int v stands for 2^64 + v, so that
\* 0 - 1 is the largest value and comparisons are unsigned.
ULess(a, b) == IF (a < 0) = (b < 0) THEN a < b ELSE b < 0

\* ------------------------------------------------------ Pool.Get walk
RECURSIVE GetWalk(_, _, _, _, _, _)
GetWalk(srv, posting, r, retry, i, tries) ==
    IF i >= Len(srv) THEN NoMore
    ELSE LET n == (i + r) % Len(srv) IN
         IF srv[n + 1].Posting \/ ~posting
         THEN IF tries + 1 > retry THEN i
              ELSE GetWalk(srv, posting, r, retry, i + 1, tries + 1)
         ELSE GetWalk(srv, posting, r, retry, i + 1, tries)

\* variant: every retry is given the first server that passes the filter
GetIndexFirstMatch(srv, posting, r, retry) ==
    IF GetWalk(srv, posting, r, retry, 0, 0) = NoMore THEN NoMore
    ELSE GetWalk(srv, posting, r, 0, 0, 0)

\* variant: the first call of a request counts as retry 1
GetIndexCountsFromOne(srv, posting, r, retry) ==
    GetWalk(srv, posting, r, retry + 1, 0, 0)

\* index put into poolGet by Pool.Get, or NoMore
GetIndex(srv, posting, r, retry) == GetWalk(srv, posting, r, retry, 0, 0)

\* ------------------------------------------------- controller: helpers
\* i, ok := connMap[conn]
InMap(m, c) == \E e \in m : e.conn = c
MapIdx(m, c) == (CHOOSE e \in m : e.conn = c).i
MapSet(m, c, i) == {e \in m : e.conn # c} \cup {[conn |-> c, i |-> i]}
MapDelete(m, c) == {e \in m : e.conn # c}

\* a poolGet is known by its requester while the requester receives on its
\* reply channel; once answered nobody receives on that channel any more
\* and the poolGet is only known by its server index (w = 0)
PoolGet(w) == [w |-> w, i |-> wk[w].target]
Answered(req) == [w |-> 0, i |-> req.i]

AllReqs == [w : 0..NumWorkers, i : 0..(NumServers - 1)]

Forget(st, req) ==
    LET n == CopiesIn(req, st.allocs)
        one(x) == [e \in {x} |-> n]
    IN [st EXCEPT
          !.queue = [i \in DOMAIN @ |->
                       [k \in 1..Len(@[i]) |->
                          IF @[i][k] = req THEN Answered(req) ELSE @[i][k]]],
          !.allocs = IF n = 0 THEN @
                     ELSE (@ (-) one(req)) (+) one(Answered(req))]

\* requests whose goroutine is receiving on its reply channel
LiveReqs == {PoolGet(w) : w \in {x \in Workers : wk[x].pc = "recv"}}

PoolState(live) ==
    [connMap |-> connMap, idles |-> idles, counters |-> counters,
     queue |-> queue, allocs |-> allocs, nextConn |-> nextConn,
     stuck |-> FALSE, consumed |-> FALSE,
     live |-> live, sent |-> {}]

\* req.result <- &poolResult{c, e}: completes iff the requester receives
Send(st, req, c, e) ==
    IF req \in st.live
    THEN Forget([st EXCEPT !.live = @ \ {req},
                           !.sent = @ \cup {[w |-> req.w, conn |-> c,
                                             err |-> e]}], req)
    ELSE [st EXCEPT !.stuck = TRUE]

\* variant: an idle connection is handed out and stays in the idle list
processGetKeepsIdle(st, req) ==
    IF Len(st.idles[req.i]) > 0
    THEN LET idle == Head(st.idles[req.i])
             s2 == Send(st, req, idle.conn, "nil")
         IN [s2 EXCEPT !.consumed = TRUE]
    ELSE IF ULess(st.counters[req.i], servers[req.i + 1].Connections)
    THEN [st EXCEPT !.counters[req.i] = @ + 1,
                    !.allocs = @ (+) SetToBag({req}),
                    !.consumed = TRUE]
    ELSE [st EXCEPT !.consumed = FALSE]

\* variant: the limit test lets one connection too many through
processGetOverLimit(st, req) ==
    IF Len(st.idles[req.i]) > 0
    THEN LET idle == Head(st.idles[req.i])
             s1 == [st EXCEPT !.idles[req.i] = Tail(@)]
             s2 == Send(s1, req, idle.conn, "nil")
         IN [s2 EXCEPT !.consumed = TRUE]
    ELSE IF ~ULess(servers[req.i + 1].Connections, st.counters[req.i])
    THEN [st EXCEPT !.counters[req.i] = @ + 1,
                    !.allocs = @ (+) SetToBag({req}),
                    !.consumed = TRUE]
    ELSE [st EXCEPT !.consumed = FALSE]

processGet(st, req) ==
    IF Len(st.idles[req.i]) > 0
    THEN LET idle == Head(st.idles[req.i])
             s1 == [st EXCEPT !.idles[req.i] = Tail(@)]
             s2 == Send(s1, req, idle.conn, "nil")
         IN [s2 EXCEPT !.consumed = TRUE]
    ELSE IF ULess(st.counters[req.i], servers[req.i + 1].Connections)
    THEN [st EXCEPT !.counters[req.i] = @ + 1,
                    !.allocs = @ (+) SetToBag({req}),
                    !.consumed = TRUE]
    ELSE [st EXCEPT !.consumed = FALSE]

RECURSIVE processQueueFrom(_, _, _)
processQueueFrom(st, i, j) ==
    IF j >= Len(st.queue[i]) THEN st
    ELSE LET s1 == processGet(st, st.queue[i][j + 1]) IN
         IF s1.stuck THEN s1
         ELSE IF ~s1.consumed
         THEN [s1 EXCEPT !.queue[i] = SubSeq(@, j + 1, Len(@))]
         ELSE processQueueFrom(s1, i, j + 1)

processQueue(st, i) == processQueueFrom(st, i, 0)

\* ------------------------------------------------ handlers: helpers
\* ------------------------------------------------- the Range header
\* A header value is a sequence of characters; "B" stands for the six
\* characters "bytes=", "x" for any character that is no digit, sign,
\* comma or blank.
RangeChars == {"0", "1", "2", "-", ",", " ", "x"}

\* strings.HasPrefix(s, "bytes=")
HasBytesPrefix(s) == Len(s) > 0 /\ s[1] = "B"

\* strings.Index(s, c) + 1, 0 when c is not in s
IndexOf(s, c) ==
    IF \E i \in 1..Len(s) : s[i] = c
    THEN CHOOSE i \in 1..Len(s) :
            s[i] = c /\ \A j \in 1..(i - 1) : s[j] # c
    ELSE 0

\* strings.Split(s, ",")
RECURSIVE Split(_)
Split(s) ==
    LET i == IndexOf(s, ",") IN
    IF i = 0 THEN <<s>>
    ELSE <<SubSeq(s, 1, i - 1)>> \o Split(SubSeq(s, i + 1, Len(s)))

\* strings.Cut(s, "-")
Cut(s) ==
    LET i == IndexOf(s, "-") IN
    IF i = 0 THEN [before |-> s, after |-> <<>>, found |-> FALSE]
    ELSE [before |-> SubSeq(s, 1, i - 1),
          after |-> SubSeq(s, i + 1, Len(s)), found |-> TRUE]

\* textproto.TrimString
RECURSIVE TrimLeft(_)
TrimLeft(s) ==
    IF s # <<>> /\ s[1] = " " THEN TrimLeft(Tail(s)) ELSE s

RECURSIVE TrimRight(_)
TrimRight(s) ==
    IF s # <<>> /\ s[Len(s)] = " "
    THEN TrimRight(SubSeq(s, 1, Len(s) - 1)) ELSE s

TrimString(s) == TrimRight(TrimLeft(s))

\* strconv.ParseInt(s, 10, 64); the numbers of a header this short are far
\* from the ends of int64
IsDigit(c) == c \in {"0", "1", "2"}

DigitVal(c) == IF c = "0" THEN 0 ELSE IF c = "1" THEN 1 ELSE 2

RECURSIVE Decimal(_, _)
Decimal(s, acc) ==
    IF s = <<>> THEN acc
    ELSE Decimal(Tail(s), 10 * acc + DigitVal(Head(s)))

ParseInt(s) ==
    LET neg == s # <<>> /\ s[1] = "-"
        ds == IF neg THEN Tail(s) ELSE s
    IN IF ds = <<>> \/ \E i \in 1..Len(ds) : ~IsDigit(ds[i])
       THEN [ok |-> FALSE, val |-> 0]
       ELSE [ok |-> TRUE,
             val |-> IF neg THEN 0 - Decimal(ds, 0) ELSE Decimal(ds, 0)]

\* variant: a suffix length longer than the body is not cut down to it
ParsePartSuffixNoCap(part, size) ==
    LET ra == TrimString(part)
        c == Cut(ra)
        start == TrimString(c.before)
        end == TrimString(c.after)
        invalid == [kind |-> "invalid", start |-> 0, length |-> 0]
    IN IF ra = <<>> THEN [kind |-> "skip", start |-> 0, length |-> 0]
       ELSE IF ~c.found THEN invalid
       ELSE IF start = <<>>
       THEN IF end = <<>> \/ end[1] = "-" THEN invalid
            ELSE LET p == ParseInt(end) IN
                 IF p.val < 0 \/ ~p.ok THEN invalid
                 ELSE [kind |-> "range", start |-> size - p.val,
                       length |-> size - (size - p.val)]
       ELSE LET p == ParseInt(start) IN
            IF ~p.ok \/ p.val < 0 THEN invalid
            ELSE IF p.val >= size
            THEN [kind |-> "noOverlap", start |-> 0, length |-> 0]
            ELSE IF end = <<>>
            THEN [kind |-> "range", start |-> p.val,
                  length |-> size - p.val]
            ELSE LET e == ParseInt(end) IN
                 IF ~e.ok \/ p.val > e.val THEN invalid
                 ELSE LET i == IF e.val >= size THEN size - 1 ELSE e.val
                      IN [kind |-> "range", start |-> p.val,
                          length |-> i - p.val + 1]

\* variant: a suffix length is counted from the first byte
ParsePartSuffixFromStart(part, size) ==
    LET ra == TrimString(part)
        c == Cut(ra)
        start == TrimString(c.before)
        end == TrimString(c.after)
        invalid == [kind |-> "invalid", start |-> 0, length |-> 0]
    IN IF ra = <<>> THEN [kind |-> "skip", start |-> 0, length |-> 0]
       ELSE IF ~c.found THEN invalid
       ELSE IF start = <<>>
       THEN IF end = <<>> \/ end[1] = "-" THEN invalid
            ELSE LET p == ParseInt(end) IN
                 IF p.val < 0 \/ ~p.ok THEN invalid
                 ELSE LET i == IF p.val > size THEN size ELSE p.val
                      IN [kind |-> "range", start |-> 0, length |-> i]
       ELSE LET p == ParseInt(start) IN
            IF ~p.ok \/ p.val < 0 THEN invalid
            ELSE IF p.val >= size
            THEN [kind |-> "noOverlap", start |-> 0, length |-> 0]
            ELSE IF end = <<>>
            THEN [kind |-> "range", start |-> p.val,
                  length |-> size - p.val]
            ELSE LET e == ParseInt(end) IN
                 IF ~e.ok \/ p.val > e.val THEN invalid
                 ELSE LET i == IF e.val >= size THEN size - 1 ELSE e.val
                      IN [kind |-> "range", start |-> p.val,
                          length |-> i - p.val + 1]

\* parseRange: one turn of the loop over the comma separated parts
\* kind "skip": continue on an empty part; "noOverlap": noOverlap = true;
\* "invalid": return the error; "range": append r
ParsePart(part, size) ==
    LET ra == TrimString(part)
        c == Cut(ra)
        start == TrimString(c.before)
        end == TrimString(c.after)
        invalid == [kind |-> "invalid", start |-> 0, length |-> 0]
    IN IF ra = <<>> THEN [kind |-> "skip", start |-> 0, length |-> 0]
       ELSE IF ~c.found THEN invalid
       ELSE IF start = <<>>
       THEN IF end = <<>> \/ end[1] = "-" THEN invalid
            ELSE LET p == ParseInt(end) IN
                 IF p.val < 0 \/ ~p.ok THEN invalid
                 ELSE LET i == IF p.val > size THEN size ELSE p.val
                      IN [kind |-> "range", start |-> size - i,
                          length |-> size - (size - i)]
       ELSE LET p == ParseInt(start) IN
            IF ~p.ok \/ p.val < 0 THEN invalid
            ELSE IF p.val >= size
            THEN [kind |-> "noOverlap", start |-> 0, length |-> 0]
            ELSE IF end = <<>>
            THEN [kind |-> "range", start |-> p.val,
                  length |-> size - p.val]
            ELSE LET e == ParseInt(end) IN
                 IF ~e.ok \/ p.val > e.val THEN invalid
                 ELSE LET i == IF e.val >= size THEN size - 1 ELSE e.val
                      IN [kind |-> "range", start |-> p.val,
                          length |-> i - p.val + 1]

RECURSIVE ParseParts(_, _, _, _)
ParseParts(parts, size, ranges, noOverlap) ==
    IF parts = <<>>
    THEN IF noOverlap /\ Len(ranges) = 0
         THEN [ranges |-> <<>>, err |-> "errNoOverlap"]
         ELSE [ranges |-> ranges, err |-> "nil"]
    ELSE LET r == ParsePart(Head(parts), size) IN
         IF r.kind = "invalid" THEN [ranges |-> <<>>, err |-> "invalid"]
         ELSE IF r.kind = "skip"
         THEN ParseParts(Tail(parts), size, ranges, noOverlap)
         ELSE IF r.kind = "noOverlap"
         THEN ParseParts(Tail(parts), size, ranges, TRUE)
         ELSE ParseParts(Tail(parts), size,
                         Append(ranges, [start |-> r.start,
                                         length |-> r.length]),
                         noOverlap)

\* parseRange(s, size)
parseRange(s, size) ==
    IF s = <<>> THEN [ranges |-> <<>>, err |-> "nil"]
    ELSE IF ~HasBytesPrefix(s) THEN [ranges |-> <<>>, err |-> "invalid"]
    ELSE ParseParts(Split(Tail(s)), size, <<>>, FALSE)

\* variant: only the first range is counted
sumRangesSizeFirstOnly(ranges) ==
    IF ranges = <<>> THEN 0 ELSE Head(ranges).length

RECURSIVE sumRangesSize(_)
sumRangesSize(ranges) ==
    IF ranges = <<>> THEN 0
    ELSE Head(ranges).length + sumRangesSize(Tail(ranges))

\* httpRange.contentRange: fmt.Sprintf("bytes %d-%d/%d", ..)
contentRange(ra, size) ==
    "bytes " \o ToString(ra.start) \o "-"
             \o ToString(ra.start + ra.length - 1) \o "/" \o ToString(size)

\* buf[ra.start : ra.start+ra.length]
Slice(buf, ra) == SubSeq(buf, ra.start + 1, ra.start + ra.length)

\* handleMessageGET from code = http.StatusOK on: the response to a body
\* of Len(buf) bytes read into buf. "" is a header that is not set; the
\* length of a multipart body is rangesMIMESize(..), not computed here.
Respond(buf, rangeReq, method) ==
    LET size == Len(buf)
        pr == IF size > 0 THEN parseRange(rangeReq, size)
              ELSE [ranges |-> <<>>, err |-> "nil"]
        ranges == IF size > 0 /\ sumRangesSize(pr.ranges) > size
                  THEN <<>> ELSE pr.ranges
        sent(b) == IF method = "HEAD" THEN <<>> ELSE b
    IN IF pr.err # "nil"
       THEN [status |-> 416,
             contentRange |-> IF pr.err = "errNoOverlap"
                              THEN "bytes */" \o ToString(size) ELSE "",
             contentType |-> "", contentLength |-> "", body |-> <<>>]
       ELSE IF Len(ranges) = 1
       THEN [status |-> 206,
             contentRange |-> contentRange(ranges[1], size),
             contentType |-> "text/plain; charset=utf-8",
             contentLength |-> ToString(ranges[1].length),
             body |-> sent(Slice(buf, ranges[1]))]
       ELSE IF Len(ranges) > 1
       \* Header().Set("Content-Type", "multipart/byteranges; boundary=..")
       \* is followed, before WriteHeader, by Header().Set("Content-Type",
       \* ctype): the second Set replaces the first
       THEN [status |-> 206, contentRange |-> "",
             contentType |-> "text/plain; charset=utf-8",
             contentLength |-> "rangesMIMESize",
             body |-> sent([k \in 1..Len(ranges) |->
                              Slice(buf, ranges[k])])]
       ELSE [status |-> 200, contentRange |-> "",
             contentType |-> "text/plain; charset=utf-8",
             contentLength |-> ToString(size), body |-> sent(buf)]

\* nothing written yet
NoResponse == [status |-> 0, contentRange |-> "", contentType |-> "",
               contentLength |-> "", body |-> <<>>]

\* an article body of n bytes: byte k has the value k
Article(n) == [k \in 1..n |-> k]

\* ------------------------------------------------ the article header
\* A Message-ID is a sequence of characters, local@host, with or without
\* angle brackets around it.
IdChars == {"a", "b"}

\* messageID.Short(): the Message-ID without its angle brackets
Short(m) ==
    IF Len(m) >= 2 /\ m[1] = "<" /\ m[Len(m)] = ">"
    THEN SubSeq(m, 2, Len(m) - 1) ELSE m

\* strings.SplitN(s, "@", 2)
SplitN2(s) ==
    LET i == IndexOf(s, "@") IN
    IF i = 0 THEN <<s>>
    ELSE <<SubSeq(s, 1, i - 1), SubSeq(s, i + 1, Len(s))>>

\* header.Set(key, value)
Set(h, key, value) == [h EXCEPT ![key] = value]

\* handleMessagePOST, the Subject of the article: h is the header made of
\* the X-Usenet- request headers, in the request
SubjectHeader(h, in) ==
    IF h.Subject # <<>> THEN h
    ELSE IF in.s # <<>> THEN Set(h, "Subject", in.s)
    ELSE LET shortID == Short(in.messageID)
             parts == SplitN2(shortID)
             h1 == IF Len(parts) > 0 THEN Set(h, "Subject", parts[1])
                   ELSE h
         IN Set(h1, "Subject", shortID)

\* handleMessagePOST, the Newsgroups of the article
NewsgroupsHeader(h, in) ==
    IF h.Newsgroups # "" THEN h
    ELSE IF in.g # "" THEN Set(h, "Newsgroups", in.g)
    ELSE Set(h, "Newsgroups", "DefaultNewsgroup")

\* handleMessagePOST, the From of the article; without a header and a
\* query parameter f it needs pwgen.New
NeedsPwgen(h, in) == h.From = "" /\ in.f = ""

FromHeader(h, in) ==
    IF h.From # "" THEN h
    ELSE IF in.f # "" THEN Set(h, "From", in.f)
    ELSE Set(h, "From", "ngID@ngPost.com")

\* handleMessagePOST up to the article it posts: status 500 and no article
\* when pwgen.New fails, else the header of the article
ArticleHeader(in) ==
    LET h0 == [From |-> in.xFrom, Newsgroups |-> in.xNewsgroups,
               Subject |-> in.xSubject]
    IN IF NeedsPwgen(h0, in) /\ ~in.pwgen
       THEN [status |-> 500, header |-> h0]
       ELSE [status |-> 0,
             header |-> SubjectHeader(
                           NewsgroupsHeader(FromHeader(h0, in), in), in)]

\* ------------------------------------------------- the HTTP request
\* What the handlers read of a request:
\*   short     len(r.URL.Path) < 3
\*   prefix    r.URL.Path[:3]
\*   ext       the suffix of r.URL.Path[3:] that HasSuffix tests
\*   valid     messageID.Validate() == nil for the name without suffix
\*   method    r.Method
\*   ifMatch .. ifRange   the header is present (r.Header.Get(..) != "")
\*   range     the Range header, a sequence of characters, <<>> if absent
\*   body      the request body: "empty", "data" (at most ArticleSizeLimit
\*             bytes) or "toolarge" (more than ArticleSizeLimit bytes)
Methods == {"GET", "HEAD", "POST", "PUT"}

Prefixes == {"/m/", "/d/", "/h/", "other"}

Exts == {".csv", ".nfo", "other"}

PlainReq == [short |-> FALSE, prefix |-> "/m/", ext |-> ".csv",
             valid |-> TRUE, method |-> "GET", ifMatch |-> FALSE,
             ifUnmodifiedSince |-> FALSE, ifNoneMatch |-> FALSE,
             ifModifiedSince |-> FALSE, ifRange |-> FALSE,
             range |-> <<>>, body |-> "empty"]

\* the handlers handleMessage dispatches to: handleMessageGET,
\* handleDotEncodedMessageGET, handleMessageHead, handleMessagePOST
Kinds == {"GET", "DGET", "HEAD", "POST"}

\* handleMessage: where a request ends up. "panic": the slice expression
\* r.URL.Path[3:] is out of range; "400": the suffix or Message-ID test
\* failed; "none": a /m/ or /d/ request whose method no case of the switch
\* takes; "static": staticHandler.ServeHTTP
Route(q) ==
    IF q.short THEN "panic"
    ELSE IF q.ext = "other" THEN "400"
    ELSE IF ~q.valid THEN "400"
    ELSE IF q.prefix \in {"/m/", "/d/"}
    THEN IF q.method = "GET" /\ q.prefix = "/d/" THEN "DGET"
         ELSE IF q.method \in {"GET", "HEAD"} THEN "GET"
         ELSE IF q.method = "POST" THEN "POST"
         ELSE "none"
    ELSE IF q.prefix = "/h/" THEN "HEAD"
    ELSE "static"

\* one request for each handler
ReqOf(k) ==
    IF k = "DGET" THEN [PlainReq EXCEPT !.prefix = "/d/"]
    ELSE IF k = "HEAD" THEN [PlainReq EXCEPT !.prefix = "/h/"]
    ELSE IF k = "POST" THEN [PlainReq EXCEPT !.method = "POST",
                                             !.body = "data"]
    ELSE PlainReq

\* http_fs.go: the precondition checks
checkIfMatch(q) == IF q.ifMatch THEN "condTrue" ELSE "condNone"

checkIfUnmodifiedSince(q) ==
    IF q.ifUnmodifiedSince THEN "condTrue" ELSE "condNone"

checkIfModifiedSince(q) ==
    IF q.method \notin {"GET", "HEAD"} THEN "condNone"
    ELSE IF ~q.ifModifiedSince THEN "condNone"
    ELSE "condTrue"

checkIfNoneMatch(q) == IF q.ifNoneMatch THEN "condTrue" ELSE "condNone"

checkIfRange(q) ==
    IF q.method \notin {"GET", "HEAD"} THEN "condNone"
    ELSE IF ~q.ifRange THEN "condNone"
    ELSE "condTrue"

\* checkPreconditions: done with a status, or go on with a Range header
checkPreconditions(q) ==
    LET ch == IF checkIfMatch(q) = "condNone"
              THEN checkIfUnmodifiedSince(q) ELSE checkIfMatch(q)
        inm == checkIfNoneMatch(q)
    IN IF ch = "condFalse"
       THEN [done |-> TRUE, status |-> 412, range |-> <<>>]
       ELSE IF inm = "condFalse"
       THEN [done |-> TRUE,
             status |-> IF q.method \in {"GET", "HEAD"} THEN 304 ELSE 412,
             range |-> <<>>]
       ELSE IF inm = "condNone" /\ checkIfModifiedSince(q) = "condFalse"
       THEN [done |-> TRUE, status |-> 304, range |-> <<>>]
       ELSE [done |-> FALSE, status |-> 0,
             range |-> IF q.range # <<>> /\ checkIfRange(q) = "condFalse"
                       THEN <<>> ELSE q.range]

IdleWorker == [pc |-> "idle", kind |-> "GET", r |-> 0, retries |-> 0,
               target |-> 0, conn |-> Nil, err |-> "nil",
               status |-> 0, body |-> "none", attempts |-> <<>>,
               req |-> PlainReq, posted |-> "none", cancelled |-> "no",
               pre |-> "none"]

\* errors.As(err, &nntpErr)
IsNntpErr(e) == e \in {"nntp", "posting"}

\* variant: the deferred function never closes
DeferPutsAlways(e) == TRUE

\* the deferred function of a handler returns the connection with Put
DeferPuts(e) == e = "nil" \/ IsNntpErr(e)

\* w.WriteHeader: only the first call sets the status line
WriteHeader(rec, code) ==
    IF rec.status = 0 THEN [rec EXCEPT !.status = code] ELSE rec

\* the status line the client gets: a handler that returns without a
\* WriteHeader answers 200; 0 when handleMessage panicked or gave the
\* request to staticHandler
HttpStatus(rec) ==
    IF rec.kind \in {"panic", "static"} THEN 0
    ELSE IF rec.status = 0 THEN 200
    ELSE rec.status

\* return: the deferred function runs next; with a nil conn it does nothing
\* the handler has returned: its locals are gone, the response stays
Done(rec) ==
    [rec EXCEPT !.pc = "done", !.conn = Nil, !.err = "nil", !.r = 0,
                !.retries = 0, !.target = 0, !.cancelled = "no"]

Return(rec) ==
    IF rec.conn = Nil THEN Done(rec) ELSE [rec EXCEPT !.pc = "defer"]

SetOut(rec, out) ==
    [rec EXCEPT !.attempts[Len(rec.attempts)].out = out]

SetDisp(rec, d) ==
    [rec EXCEPT !.attempts[Len(rec.attempts)].disp = d]

\* result := <-ret in Pool.Get, then the handler's test of (conn, err): an
\* allocation error ends the request with 500, a connection goes on to the
\* NNTP command
Received(rec) ==
    IF rec.err # "nil"
    THEN Return(WriteHeader(SetOut([rec EXCEPT !.conn = Nil], "allocerr"),
                            500))
    ELSE [rec EXCEPT !.pc = "cmd"]

\* the controller's step is over: publish its state, hand the results sent
\* to the goroutines that received them
Commit(st, base) ==
    /\ connMap' = st.connMap
    /\ idles' = st.idles
    /\ counters' = st.counters
    /\ queue' = st.queue
    /\ allocs' = st.allocs
    /\ nextConn' = st.nextConn
    /\ ctl' = IF st.stuck THEN "stuck" ELSE "select"
    /\ wk' = [w \in Workers |->
                IF \E m \in st.sent : m.w = w
                THEN LET m == CHOOSE m \in st.sent : m.w = w IN
                     Received([base[w] EXCEPT !.conn = m.conn,
                                              !.err = m.err])
                ELSE base[w]]

\* ------------------------------------------------------------ Init
\* no Range header is under examination
NoRangeRun == [pc |-> "off", s |-> <<>>, size |-> 0, out |-> NoResponse]

\* a POST without any of the headers and parameters the article header is
\* made of, and no article header
NoHeaderIn == [messageID |-> <<>>, xSubject |-> <<>>, s |-> <<>>,
               xFrom |-> "", f |-> "", pwgen |-> TRUE,
               xNewsgroups |-> "", g |-> ""]

NoHeaderRun == [pc |-> "off", in |-> NoHeaderIn,
                out |-> ArticleHeader(NoHeaderIn)]

PoolInit ==
    /\ connMap = {}
    /\ idles = [i \in SrvIdx |-> << >>]
    /\ counters = [i \in SrvIdx |-> 0]
    /\ queue = [i \in SrvIdx |-> << >>]
    /\ allocs = EmptyBag
    /\ ctl = "select"
    /\ nextConn = 1

ServerInit ==
    /\ servers = [n \in 1..NumServers |->
                    [Posting |-> (n = NumServers), Connections |-> Connections]]
    /\ PoolInit
    /\ wk = [w \in Workers |-> IdleWorker]
    /\ nreq = 0
    /\ sel = [posting |-> FALSE, r |-> 0, retry |-> 0, pc |-> "off",
              result |-> NoMore]
    /\ rng = NoRangeRun
    /\ hdr = NoHeaderRun

\* handler runs: every kind of request, every start index
Init ==
    /\ ServerInit
    /\ env = [workers |-> 1..HandlerWorkers,
              reqs |-> "handlers",
              starts |-> SrvIdx, requests |-> MaxRequests]

\* pool runs: more goroutines and requests, all of them /m/ GET requests
\* that start their walk at server 0
PoolRunInit ==
    /\ ServerInit
    /\ env = [workers |-> Workers, reqs |-> "get",
              starts |-> {0}, requests |-> MaxPoolRequests]

\* request runs: one request at a time, of every shape, against a server
\* list with and without a Posting server
RouteReqs ==
    {[PlainReq EXCEPT !.short = TRUE, !.prefix = "other", !.method = m] :
        m \in Methods}
    \cup {[PlainReq EXCEPT !.prefix = p, !.ext = e, !.valid = v,
                           !.method = m] :
             p \in Prefixes, e \in Exts, v \in BOOLEAN, m \in Methods}

CondReqs ==
    {[PlainReq EXCEPT !.prefix = p, !.method = m, !.ifMatch = a,
                      !.ifUnmodifiedSince = b, !.ifNoneMatch = c,
                      !.ifModifiedSince = d, !.ifRange = e] :
        p \in {"/m/", "/d/", "/h/"}, m \in Methods,
        a \in BOOLEAN, b \in BOOLEAN, c \in BOOLEAN, d \in BOOLEAN,
        e \in BOOLEAN}

BodyReqs ==
    {[PlainReq EXCEPT !.prefix = p, !.method = "POST", !.body = b] :
        p \in {"/m/", "/d/"}, b \in {"empty", "data", "toolarge"}}

\* Range headers: one range, a part that is no range, a range past the
\* end, two ranges, a header without "bytes="
SampleRanges ==
    {<<"B", "0", "-", "0">>, <<"B", "x">>, <<"B", "2", "-">>,
     <<"B", "-", "1", ",", "-", "1">>, <<"0", "-", "0">>}

RangeReqs ==
    {[PlainReq EXCEPT !.method = m, !.range = s, !.ifRange = e] :
        m \in {"GET", "HEAD"}, s \in SampleRanges, e \in BOOLEAN}

RequestSet == RouteReqs \cup CondReqs \cup BodyReqs \cup RangeReqs

\* the requests of a run, by the name env.reqs gives the mix
Offered(mix) ==
    IF mix = "every" THEN RequestSet
    ELSE IF mix = "handlers" THEN {ReqOf(k) : k \in Kinds}
    ELSE {ReqOf("GET")}

RequestInit ==
    /\ \E posting \in BOOLEAN :
          servers = [n \in 1..NumServers |->
                       [Posting |-> (posting /\ n = NumServers),
                        Connections |-> Connections]]
    /\ PoolInit
    /\ wk = [w \in Workers |-> IdleWorker]
    /\ nreq = 0
    /\ sel = [posting |-> FALSE, r |-> 0, retry |-> 0, pc |-> "off",
              result |-> NoMore]
    /\ rng = NoRangeRun
    /\ hdr = NoHeaderRun
    /\ env = [workers |-> {1}, reqs |-> "every", starts |-> SrvIdx,
              requests |-> 1]

\* A handler's own steps (the NNTP command, reading the body, returning)
\* touch nothing but its locals and commute with every step of the pool and
\* of the other handlers, so they are taken first.
Quiet == \A w \in Workers : wk[w].pc \notin {"cmd", "body", "done"}

\* ------------------------------------------------- handler actions
\* variant: the handlers go to the pool without the precondition check
EnterSkipsCheck(q, r) ==
    LET k == Route(q)
        on == [IdleWorker EXCEPT !.kind = k, !.req = q]
    IN IF k \in {"panic", "static", "none"} THEN Done(on)
       ELSE IF k = "400" THEN Done(WriteHeader(on, 400))
       ELSE [on EXCEPT !.pc = "get", !.r = r]

\* handleMessage and the handler it calls, up to the first Pool.Get: a
\* request that is not dispatched, or that the precondition check ends, is
\* over; r is the start index Pool.Get derives from the Message-ID; pre
\* records that checkPreconditions has returned, and how
Enter(q, r) ==
    LET k == Route(q)
        on == [IdleWorker EXCEPT !.kind = k, !.req = q]
    IN IF k \in {"panic", "static", "none"} THEN Done(on)
       ELSE IF k = "400" THEN Done(WriteHeader(on, 400))
       ELSE IF k = "POST" THEN [on EXCEPT !.pc = "get", !.r = r]
       ELSE LET pre == checkPreconditions(q) IN
            IF pre.done
            THEN Done(WriteHeader([on EXCEPT !.pre = "ended"], pre.status))
            ELSE [on EXCEPT !.pc = "get", !.r = r, !.pre = "passed"]

\* a request arrives and handleMessage runs
Start(w) ==
    /\ Quiet
    /\ w \in env.workers
    /\ wk[w].pc = "idle"
    \* goroutines are interchangeable: the lowest free one serves
    /\ \A v \in env.workers : v < w => wk[v].pc # "idle"
    /\ nreq < env.requests
    /\ \E q \in Offered(env.reqs), r \in env.starts :
          wk' = [wk EXCEPT ![w] = Enter(q, r)]
    /\ nreq' = nreq + 1
    /\ UNCHANGED <<servers, connMap, idles, counters, queue, allocs, ctl,
                   nextConn, env, sel, rng, hdr>>

\* Pool.Get finds no server: the handler ends without a connection
NoMoreGetHead(rec) ==
    Return(WriteHeader([rec EXCEPT !.conn = Nil,
                                   !.err = "ErrNoMoreServers"], 404))

NoMorePost(rec) ==
    Return([rec EXCEPT !.conn = Nil, !.err = "ErrNoMoreServers"])

GetNoMore(w) ==
    /\ Quiet
    /\ wk[w].pc = "get"
    /\ GetIndex(servers, wk[w].kind = "POST", wk[w].r, wk[w].retries) = NoMore
    /\ wk' = [wk EXCEPT ![w] = IF wk[w].kind = "POST"
                               THEN NoMorePost(wk[w])
                               ELSE NoMoreGetHead(wk[w])]
    /\ UNCHANGED <<servers, connMap, idles, counters, queue, allocs, ctl,
                   nextConn, nreq, env, sel, rng, hdr>>

\* Pool.Get sends its poolGet; the controller takes it (getChan case)
CtlGet(w) ==
    /\ Quiet
    /\ wk[w].pc = "get"
    /\ ctl = "select"
    /\ LET idx == GetIndex(servers, wk[w].kind = "POST", wk[w].r,
                           wk[w].retries)
           req == [w |-> w, i |-> idx]
           base == [wk EXCEPT ![w] =
                      [@ EXCEPT !.pc = "recv", !.target = idx,
                                !.attempts = Append(@,
                                   [srv |-> idx, k |-> wk[w].retries,
                                    out |-> "pending", disp |-> "none"])]]
           s1 == processGet(PoolState(LiveReqs \cup {req}), req)
           s2 == IF s1.stuck \/ s1.consumed THEN s1
                 ELSE [s1 EXCEPT !.queue[idx] = Append(@, req)]
       IN /\ idx # NoMore
          /\ Commit(s2, base)
    /\ UNCHANGED <<servers, nreq, env, sel, rng, hdr>>

\* variant: a protocol error discards the connection and ends the request
CmdGetHeadGivesUp(rec, out) ==
    IF out \in {"proto", "trans"}
    THEN Return(WriteHeader([SetOut(rec, out) EXCEPT !.err = "transport"],
                            500))
    ELSE IF rec.kind = "HEAD"
    THEN Return(WriteHeader([SetOut(rec, out) EXCEPT !.err = "nil"], 200))
    ELSE [SetOut(rec, out) EXCEPT !.err = "nil", !.pc = "body"]

\* variant: after a protocol error the loop goes on without the Put
CmdGetHeadDropsConn(rec, out) ==
    IF out = "proto"
    THEN [SetOut(rec, out) EXCEPT !.err = "nil", !.pc = "get",
                                  !.retries = @ + 1, !.conn = Nil]
    ELSE IF out = "trans"
    THEN Return(WriteHeader([SetOut(rec, out) EXCEPT !.err = "transport"],
                            500))
    ELSE IF rec.kind = "HEAD"
    THEN Return(WriteHeader([SetOut(rec, out) EXCEPT !.err = "nil"], 200))
    ELSE [SetOut(rec, out) EXCEPT !.err = "nil", !.pc = "body"]

\* outcome of CmdArticle / CmdHead in the retry loop
CmdGetHead(rec, out) ==
    IF out = "proto"
    THEN [SetOut(rec, out) EXCEPT !.err = "nntp", !.pc = "loop_put"]
    ELSE IF out = "trans"
    THEN Return(WriteHeader([SetOut(rec, out) EXCEPT !.err = "transport"],
                            500))
    ELSE IF rec.kind = "HEAD"
    THEN Return(WriteHeader([SetOut(rec, out) EXCEPT !.err = "nil"], 200))
    ELSE [SetOut(rec, out) EXCEPT !.err = "nil", !.pc = "body"]

\* article.Body is io.LimitReader(r.Body, ArticleSizeLimit): what CmdPost
\* sends of the request body
LimitReader(b) == IF b = "toolarge" THEN "truncated" ELSE b

\* variant: a posting failure is answered like any other protocol error
CmdPostNoConflict(rec, out) ==
    LET sent == [SetOut(rec, out) EXCEPT
                    !.posted = LimitReader(rec.req.body)]
    IN IF out \in {"posting", "proto"}
       THEN Return(WriteHeader([sent EXCEPT !.err = "nntp"], 500))
       ELSE IF out = "trans"
       THEN Return(WriteHeader([sent EXCEPT !.err = "transport"], 500))
       ELSE Return(WriteHeader([sent EXCEPT !.err = "nil"], 200))

\* conn.CmdPost(article) and its outcome
CmdPost(rec, out) ==
    LET sent == [SetOut(rec, out) EXCEPT
                    !.posted = LimitReader(rec.req.body)]
    IN IF out = "posting"
       THEN Return(WriteHeader([sent EXCEPT !.err = "posting"], 409))
       ELSE IF out = "proto"
       THEN Return(WriteHeader([sent EXCEPT !.err = "nntp"], 500))
       ELSE IF out = "trans"
       THEN Return(WriteHeader([sent EXCEPT !.err = "transport"], 500))
       ELSE Return(WriteHeader([sent EXCEPT !.err = "nil"], 200))

Cmd(w) ==
    /\ wk[w].pc = "cmd"
    /\ \/ /\ wk[w].kind # "POST"
          /\ \E out \in {"ok", "proto", "trans"} :
                wk' = [wk EXCEPT ![w] = CmdGetHead(wk[w], out)]
       \/ /\ wk[w].kind = "POST"
          /\ \E out \in {"ok", "posting", "proto", "trans"} :
                wk' = [wk EXCEPT ![w] = CmdPost(wk[w], out)]
    /\ UNCHANGED <<servers, connMap, idles, counters, queue, allocs, ctl,
                   nextConn, nreq, env, sel, rng, hdr>>

\* handleMessageGET from the read of the article body on; code is the
\* status of the response composed for a body that was read, 416 when
\* parseRange rejects the Range header, which leaves its error in err
WriteResponse(rd, b, code) ==
    IF b = "writeerr" /\ code # 416 /\ rd.req.method # "HEAD"
    THEN Return(WriteHeader(WriteHeader([rd EXCEPT !.err = "write"], code),
                            500))
    ELSE IF b = "empty"
    THEN Return(WriteHeader([rd EXCEPT !.err = "EOF"], 500))
    ELSE IF b = "readerr"
    THEN Return(WriteHeader([rd EXCEPT !.err = "transport"], 500))
    ELSE IF b = "toolarge"
    THEN Return(WriteHeader([rd EXCEPT !.err = "nil"], 507))
    ELSE Return(WriteHeader([rd EXCEPT !.err = IF code = 416
                                               THEN "range" ELSE "nil"],
                            code))

\* handleMessageGET reads the article body into the buffer and answers
ReadBody(rec, b, n) ==
    WriteResponse([rec EXCEPT !.body = b], b,
                  Respond(Article(n), checkPreconditions(rec.req).range,
                          rec.req.method).status)

\* handleDotEncodedMessageGET writes 200 and copies at most
\* ArticleSizeLimit bytes of the body to the client; a later WriteHeader
\* changes nothing
CopyBody(rec, b) ==
    LET rd == WriteHeader([rec EXCEPT !.body = b], 200) IN
    IF b = "readerr"
    THEN Return(WriteHeader([rd EXCEPT !.err = "transport"], 500))
    ELSE IF b = "writeerr"
    THEN Return(WriteHeader([rd EXCEPT !.err = "write"], 500))
    ELSE Return([rd EXCEPT !.err = "nil"])

\* what becomes of the body: read and sent, empty, a read error, too long,
\* or, once the client is gone, read but not written ("writeerr")
BodyOutcomes(rec) ==
    {"data", "empty", "readerr", "toolarge"}
    \cup (IF rec.cancelled # "no" THEN {"writeerr"} ELSE {})

Body(w) ==
    /\ wk[w].pc = "body"
    /\ \E b \in BodyOutcomes(wk[w]), n \in 1..MaxBody :
          wk' = [wk EXCEPT ![w] = IF wk[w].kind = "DGET"
                                  THEN CopyBody(wk[w], b)
                                  ELSE ReadBody(wk[w], b, n)]
    /\ UNCHANGED <<servers, connMap, idles, counters, queue, allocs, ctl,
                   nextConn, nreq, env, sel, rng, hdr>>

\* ---------------------------------------------- controller actions
\* variant: the connection goes to the waiter queued last
putCaseLast(st, c) ==
    IF InMap(st.connMap, c)
    THEN LET i == MapIdx(st.connMap, c) IN
         IF Len(st.queue[i]) > 0
         THEN LET get == st.queue[i][Len(st.queue[i])] IN
              Send([st EXCEPT !.queue[i] = SubSeq(@, 1, Len(@) - 1)],
                   get, c, "nil")
         ELSE [st EXCEPT !.idles[i] = Append(@, [conn |-> c, age |-> 0])]
    ELSE st

\* case conn := <-p.putChan
putCase(st, c) ==
    IF InMap(st.connMap, c)
    THEN LET i == MapIdx(st.connMap, c) IN
         IF Len(st.queue[i]) > 0
         THEN LET get == Head(st.queue[i]) IN
              Send([st EXCEPT !.queue[i] = Tail(@)], get, c, "nil")
         ELSE [st EXCEPT !.idles[i] =
                            Append(@, [conn |-> c, age |-> 0])]
    ELSE st

\* Pool.Put(conn), from the retry loop or from the deferred function
PutCalls(rec) ==
    \/ rec.pc = "loop_put"
    \/ rec.pc = "defer" /\ rec.conn # Nil /\ DeferPuts(rec.err)

\* after the Put of the retry loop conn and err are dead: the next Get
\* assigns both before either is read
AfterPut(rec) ==
    IF rec.pc = "loop_put"
    THEN [SetDisp(rec, "put") EXCEPT !.pc = "get", !.retries = @ + 1,
                                     !.conn = Nil, !.err = "nil"]
    ELSE Done(SetDisp(rec, "put"))

CtlPut(w) ==
    /\ Quiet
    /\ PutCalls(wk[w])
    /\ ctl = "select"
    /\ Commit(putCase(PoolState(LiveReqs), wk[w].conn),
              [wk EXCEPT ![w] = AfterPut(wk[w])])
    /\ UNCHANGED <<servers, nreq, env, sel, rng, hdr>>

\* variant: the connection stays in connMap
closeCaseKeepsConn(st, c) ==
    IF InMap(st.connMap, c)
    THEN LET i == MapIdx(st.connMap, c) IN
         processQueue([st EXCEPT !.counters[i] = @ - 1], i)
    ELSE st

\* case conn := <-p.closeChan
closeCase(st, c) ==
    IF InMap(st.connMap, c)
    THEN LET i == MapIdx(st.connMap, c) IN
         processQueue([st EXCEPT !.counters[i] = @ - 1,
                                 !.connMap = MapDelete(@, c)], i)
    ELSE st

\* Pool.Close(conn), from the deferred function
CloseCalls(rec) == rec.pc = "defer" /\ rec.conn # Nil /\ ~DeferPuts(rec.err)

AfterClose(rec) == Done(SetDisp(rec, "close"))

CtlClose(w) ==
    /\ Quiet
    /\ CloseCalls(wk[w])
    /\ ctl = "select"
    /\ Commit(closeCase(PoolState(LiveReqs), wk[w].conn),
              [wk EXCEPT ![w] = AfterClose(wk[w])])
    /\ UNCHANGED <<servers, nreq, env, sel, rng, hdr>>

\* case result := <-deferredChan
deferredCase(st, req, ok) ==
    IF ok
    THEN LET c == st.nextConn IN
         Send([st EXCEPT !.connMap = MapSet(@, c, req.i),
                         !.nextConn = @ + 1], req, c, "nil")
    ELSE LET s1 == Send(st, req, Nil, "alloc") IN
         IF s1.stuck THEN s1
         ELSE processQueue([s1 EXCEPT !.counters[req.i] = @ - 1], req.i)

\* a newConn goroutine delivers its result to the controller
AllocDone(req) ==
    /\ Quiet
    /\ ctl = "select"
    /\ BagIn(req, allocs)
    /\ \E ok \in BOOLEAN :
          Commit(deferredCase([PoolState(LiveReqs) EXCEPT
                                  !.allocs = @ (-) SetToBag({req})], req, ok),
                 wk)
    /\ UNCHANGED <<servers, nreq, env, sel, rng, hdr>>

\* case <-timer.C: the idle purge
\* variant: an entry is kept until it is older than idleExpiry
StillFreshInclusive(idle) == idle.age <= IdleConnExpiry

\* idle.idleStart.After(time.Now().Add(-p.idleExpiry))
StillFresh(idle) == idle.age < IdleConnExpiry

Kept(arr) == SelectSeq(arr, StillFresh)

\* variant: the purge closes the entries and keeps their slots
purgeCaseKeepsSlots(st) ==
    [st EXCEPT !.idles = [i \in SrvIdx |-> Kept(st.idles[i])]]

purgeCase(st) ==
    [st EXCEPT !.idles = [i \in SrvIdx |-> Kept(st.idles[i])],
               !.counters = [i \in SrvIdx |->
                    st.counters[i] -
                    (Len(st.idles[i]) - Len(Kept(st.idles[i])))]]

Purge ==
    /\ Quiet
    /\ ctl = "select"
    /\ Commit(purgeCase(PoolState(LiveReqs)), wk)
    /\ UNCHANGED <<servers, nreq, env, sel, rng, hdr>>

\* one unit of time passes: every idle entry is one unit older
Older(idle) == [idle EXCEPT !.age = IF @ < IdleConnExpiry THEN @ + 1 ELSE @]

Tick ==
    /\ Quiet
    /\ \E i \in SrvIdx : \E k \in 1..Len(idles[i]) : StillFresh(idles[i][k])
    /\ idles' = [i \in SrvIdx |->
                   [k \in 1..Len(idles[i]) |-> Older(idles[i][k])]]
    /\ UNCHANGED <<servers, connMap, counters, queue, allocs, ctl,
                   nextConn, wk, nreq, env, sel, rng, hdr>>

\* the handler's goroutine ends
Finish(w) ==
    /\ wk[w].pc = "done"
    /\ wk' = [wk EXCEPT ![w] = IdleWorker]
    /\ UNCHANGED <<servers, connMap, idles, counters, queue, allocs, ctl,
                   nextConn, nreq, env, sel, rng, hdr>>

Next ==
    \/ \E w \in Workers : Start(w)
    \/ \E w \in Workers : GetNoMore(w)
    \/ \E w \in Workers : CtlGet(w)
    \/ \E w \in Workers : Cmd(w)
    \/ \E w \in Workers : Body(w)
    \/ \E w \in Workers : CtlPut(w)
    \/ \E w \in Workers : CtlClose(w)
    \/ \E w \in Workers : Finish(w)
    \/ \E req \in AllReqs : AllocDone(req)
    \/ Purge
    \/ Tick

Spec == Init /\ [][Next]_vars

PoolSpec == PoolRunInit /\ [][Next]_vars

RequestSpec == RequestInit /\ [][Next]_vars

\* Every goroutine that can take a step eventually takes it: NNTP commands
\* and allocations end, handlers go on to their Put or Close, and the
\* controller serves whichever channel is ready.
Fairness ==
    /\ \A w \in Workers :
          /\ WF_vars(GetNoMore(w)) /\ WF_vars(CtlGet(w))
          /\ WF_vars(Cmd(w)) /\ WF_vars(Body(w))
          /\ WF_vars(CtlPut(w)) /\ WF_vars(CtlClose(w))
          /\ WF_vars(Finish(w))
    /\ \A req \in AllReqs : WF_vars(AllocDone(req))

FairPoolSpec == PoolSpec /\ Fairness

\* ------------------------------------------------ the purge on its own
\* idle lists as Put leaves them: the entry released first comes first, so
\* no entry is older than the one before it
IdleAges ==
    {a \in UNION {[1..n -> 0..MaxAge] : n \in 0..MaxIdle} :
        \A k \in 1..(Len(a) - 1) : a[k] >= a[k + 1]}

\* the k-th idle connection of server i
IdleConn(i, k) == i * MaxIdle + k

\* a pool at rest: every connection it has made is idle, up to MaxIdle of
\* them per server, and no request is running
PurgeInit ==
    /\ servers = [n \in 1..NumServers |->
                    [Posting |-> (n = NumServers), Connections |-> MaxIdle]]
    /\ \E ages \in [0..(NumServers - 1) -> IdleAges] :
          /\ idles = [i \in 0..(NumServers - 1) |->
                         [k \in 1..Len(ages[i]) |->
                            [conn |-> IdleConn(i, k), age |-> ages[i][k]]]]
          /\ counters = [i \in 0..(NumServers - 1) |-> Len(ages[i])]
          /\ connMap = {[conn |-> IdleConn(e.i, e.k), i |-> e.i] :
                           e \in {x \in [i : 0..(NumServers - 1),
                                         k : 1..MaxIdle] :
                                      x.k <= Len(ages[x.i])}}
    /\ queue = [i \in 0..(NumServers - 1) |-> << >>]
    /\ allocs = EmptyBag
    /\ ctl = "select"
    /\ nextConn = NumServers * MaxIdle + 1
    /\ wk = [w \in Workers |-> IdleWorker]
    /\ nreq = 0
    /\ sel = [posting |-> FALSE, r |-> 0, retry |-> 0, pc |-> "off",
              result |-> NoMore]
    /\ env = [workers |-> {}, reqs |-> "get", starts |-> {}, requests |-> 0]
    /\ rng = NoRangeRun
    /\ hdr = NoHeaderRun

PurgeNext == Purge \/ Tick

PurgeSpec == PurgeInit /\ [][PurgeNext]_vars

\* ------------------------------------------------ requests cancelled
\* The client of a running request goes away: net/http cancels r.Context().
\* No handler and no pool function reads the context; what is left of the
\* cancellation is where it happened.
Cancel(w) ==
    /\ wk[w].pc \in {"recv", "cmd", "body"}
    /\ wk[w].cancelled = "no"
    /\ wk' = [wk EXCEPT ![w].cancelled = wk[w].pc]
    /\ UNCHANGED <<servers, connMap, idles, counters, queue, allocs, ctl,
                   nextConn, nreq, env, sel, rng, hdr>>

\* every kind of request, all of them starting their walk at server 0
CancelInit ==
    /\ ServerInit
    /\ env = [workers |-> 1..HandlerWorkers, reqs |-> "handlers",
              starts |-> {0}, requests |-> MaxRequests]

CancelNext == Next \/ \E w \in Workers : Cancel(w)

CancelSpec == CancelInit /\ [][CancelNext]_vars

\* The purge timer fires again and again, and time passes between two
\* purges.
TimerFairness == WF_vars(Tick) /\ WF_vars(Purge)

FairSpec == Spec /\ Fairness /\ TimerFairness

\* ------------------------------------------- the range engine on its own
\* every Range header of at most MaxRangeLen characters, with and without
\* "bytes=" in front, against every body of 1..MaxBody bytes
RangeTexts == UNION {[1..k -> RangeChars] : k \in 0..MaxRangeLen}

RangeInit ==
    /\ rng \in [pc : {"call"},
                s : RangeTexts \cup {<<"B">> \o t : t \in RangeTexts},
                size : 1..MaxBody,
                out : {NoResponse}]
    /\ servers = [n \in 1..NumServers |->
                    [Posting |-> (n = NumServers), Connections |-> Connections]]
    /\ PoolInit
    /\ wk = [w \in Workers |-> IdleWorker]
    /\ nreq = 0
    /\ sel = [posting |-> FALSE, r |-> 0, retry |-> 0, pc |-> "off",
              result |-> NoMore]
    /\ env = [workers |-> {}, reqs |-> "get", starts |-> {}, requests |-> 0]
    /\ hdr = NoHeaderRun

\* handleMessageGET composes the response to a GET
RangeRespond ==
    /\ rng.pc = "call"
    /\ rng' = [rng EXCEPT !.pc = "done",
                          !.out = Respond(Article(rng.size), rng.s, "GET")]
    /\ UNCHANGED <<servers, connMap, idles, counters, queue, allocs, ctl,
                   nextConn, wk, nreq, env, sel, hdr>>

RangeNext == RangeRespond

RangeSpec == RangeInit /\ [][RangeNext]_vars

\* ------------------------------------------ the article header on its own
\* Message-IDs local@host with parts of 1..MaxIdPart characters
IdParts == UNION {[1..k -> IdChars] : k \in 1..MaxIdPart}

MessageIDs ==
    LET ids == {l \o <<"@">> \o h : l \in IdParts, h \in IdParts}
    IN ids \cup {<<"<">> \o m \o <<">">> : m \in ids}

HeaderInit ==
    /\ hdr \in [pc : {"call"},
                in : [messageID : MessageIDs,
                      xSubject : {<<>>, <<"h">>}, s : {<<>>, <<"q">>},
                      xFrom : {"", "hf"}, f : {"", "qf"}, pwgen : BOOLEAN,
                      xNewsgroups : {"", "hg"}, g : {"", "qg"}],
                out : {ArticleHeader(NoHeaderIn)}]
    /\ servers = [n \in 1..NumServers |->
                    [Posting |-> (n = NumServers), Connections |-> Connections]]
    /\ PoolInit
    /\ wk = [w \in Workers |-> IdleWorker]
    /\ nreq = 0
    /\ sel = [posting |-> FALSE, r |-> 0, retry |-> 0, pc |-> "off",
              result |-> NoMore]
    /\ env = [workers |-> {}, reqs |-> "get", starts |-> {}, requests |-> 0]
    /\ rng = NoRangeRun

\* handleMessagePOST makes the header of the article
PostHeader ==
    /\ hdr.pc = "call"
    /\ hdr' = [hdr EXCEPT !.pc = "done", !.out = ArticleHeader(hdr.in)]
    /\ UNCHANGED <<servers, connMap, idles, counters, queue, allocs, ctl,
                   nextConn, wk, nreq, env, sel, rng>>

HeaderNext == PostHeader

HeaderSpec == HeaderInit /\ [][HeaderNext]_vars

\* ------------------------------------------- selection walk on its own
SelInit ==
    /\ \E n \in 1..MaxSelServers :
          /\ servers \in [1..n -> [Posting : BOOLEAN,
                                   Connections : {Connections}]]
          /\ sel \in [posting : BOOLEAN, r : 0..(n - 1), retry : 0..n,
                      pc : {"call"}, result : {NoMore}]
    /\ PoolInit
    /\ wk = [w \in Workers |-> IdleWorker]
    /\ nreq = 0
    /\ env = [workers |-> {}, reqs |-> "get", starts |-> {}, requests |-> 0]
    /\ rng = NoRangeRun
    /\ hdr = NoHeaderRun

\* Pool.Get sends poolGet{i, ret} to the controller
SelSend ==
    /\ sel.pc = "call"
    /\ GetIndex(servers, sel.posting, sel.r, sel.retry) # NoMore
    /\ sel' = [sel EXCEPT !.pc = "sent",
                  !.result = GetIndex(servers, sel.posting, sel.r, sel.retry)]
    /\ UNCHANGED <<servers, connMap, idles, counters, queue, allocs, ctl,
                   nextConn, wk, nreq, env, rng, hdr>>

\* Pool.Get returns ErrNoMoreServers
SelNoMore ==
    /\ sel.pc = "call"
    /\ GetIndex(servers, sel.posting, sel.r, sel.retry) = NoMore
    /\ sel' = [sel EXCEPT !.pc = "nomore"]
    /\ UNCHANGED <<servers, connMap, idles, counters, queue, allocs, ctl,
                   nextConn, wk, nreq, env, rng, hdr>>

SelNext == SelSend \/ SelNoMore

SelSpec == SelInit /\ [][SelNext]_vars

\* ------------------------------------------------------------ claims
\* the connection a handler is working with
HoldsIn(rec, c) ==
    rec.conn = c /\ rec.pc \in {"cmd", "body", "loop_put", "defer"}

Holds(w, c) == HoldsIn(wk[w], c)

IdleConns(ids) ==
    UNION {{ids[i][k].conn : k \in 1..Len(ids[i])} : i \in DOMAIN ids}

\* a request that waits in the queue of its server without a slot
ParkedIn(req, recs, running) ==
    /\ req.w \in Workers
    /\ recs[req.w].pc = "recv"
    /\ ~BagIn(req, running)

Parked(req) == ParkedIn(req, wk, allocs)

\* C1: for every server i, in every reachable state of the controller,
\* counters[i] (read as the unsigned number it is) is at most Connections[i].
CountersWithinLimit ==
    \A i \in SrvIdx : ~ULess(servers[i + 1].Connections, counters[i])

\* a Get is parked because its server is at its limit
CountersAtLimitWitness ==
    \E i \in SrvIdx :
        /\ counters[i] = servers[i + 1].Connections
        /\ \E k \in 1..Len(queue[i]) : Parked(queue[i][k])

\* C2: the controller is never blocked for ever in a channel send; it
\* always returns to its select.
ControllerNeverStuck == ctl = "select"

\* C3: a Get parked in the queue of its server is eventually answered.
ParkedEventuallyAnswered ==
    \A w \in Workers :
        (wk[w].pc = "recv" /\ Parked([w |-> w, i |-> wk[w].target]))
            ~> (wk[w].pc # "recv")

\* the step in which the controller takes w's Close, resp. w's Put
CloseStep(w) ==
    /\ wk[w].pc = "defer"
    /\ wk'[w].pc = "done"
    /\ wk'[w].attempts[Len(wk'[w].attempts)].disp = "close"

PutStep(w) ==
    /\ wk[w].pc \in {"loop_put", "defer"}
    /\ wk'[w].pc # wk[w].pc
    /\ wk'[w].attempts[Len(wk'[w].attempts)].disp = "put"

\* allocations running for server i
Allocating(b, i) ==
    LET on == {q \in DOMAIN b : q.i = i}
        RECURSIVE sum(_)
        sum(S) == IF S = {} THEN 0
                  ELSE LET q == CHOOSE q \in S : TRUE
                       IN b[q] + sum(S \ {q})
    IN sum(on)

\* connections the pool created and no longer knows: they were closed
ClosedConns == {c \in 1..(nextConn - 1) : ~InMap(connMap, c)}

\* C4: a Close of a connection of server i takes exactly one off
\* counters[i] (what the step adds again are allocations it starts for
\* waiters) and the pool forgets the connection, so that a second Close of
\* it, like the Close of an unknown connection, changes no counter; a closed
\* connection is in no idle list and in no handler's hands ever after.
CloseDecrementsOnce ==
    /\ [](\A c \in ClosedConns \cup {nextConn} :
              /\ c \notin IdleConns(idles)
              /\ \A w \in Workers : ~Holds(w, c)
              /\ closeCase(PoolState(LiveReqs), c).counters = counters)
    /\ [][\A w \in Workers : CloseStep(w) =>
            LET c == wk[w].conn
                i == MapIdx(connMap, c)
            IN /\ InMap(connMap, c)
               /\ ~InMap(connMap', c)
               /\ counters'[i] - Allocating(allocs', i)
                     = counters[i] - 1 - Allocating(allocs, i)
               /\ \A j \in SrvIdx \ {i} : counters'[j] = counters[j]
               /\ c \notin IdleConns(idles')
               /\ \A v \in Workers : ~HoldsIn(wk'[v], c)]_vars

\* a connection was closed and its server is in use again
CloseWitness ==
    \E c \in ClosedConns : \E i \in SrvIdx :
        /\ counters[i] = 1
        /\ \E w \in Workers : wk[w].pc = "done" /\ wk[w].attempts # <<>>
              /\ wk[w].attempts[Len(wk[w].attempts)].disp = "close"
              /\ wk[w].attempts[Len(wk[w].attempts)].srv = i

\* C5: a Put of a connection of server i hands it to the waiter at the head
\* of queue[i], which leaves the queue, or, without a waiter, appends it to
\* idles[i]; never both; counters[i] stays.
PutHasOneEffect ==
    [][\A w \in Workers : (PutStep(w) /\ InMap(connMap, wk[w].conn)) =>
          LET c == wk[w].conn
              i == MapIdx(connMap, c)
          IN /\ counters' = counters
             /\ IF Len(queue[i]) > 0
                THEN /\ queue'[i] = Tail(queue[i])
                     /\ idles' = idles
                     /\ Head(queue[i]).w \in Workers
                     /\ wk[Head(queue[i]).w].pc = "recv"
                     /\ wk'[Head(queue[i]).w].pc = "cmd"
                     /\ wk'[Head(queue[i]).w].conn = c
                ELSE /\ idles'[i] = Append(idles[i], [conn |-> c, age |-> 0])
                     /\ queue' = queue
                     /\ \A v \in Workers \ {w} : wk'[v] = wk[v]]_vars

\* C6: waiters of one server are served first in, first out: a parked Get
\* is not given a connection or a slot while a Get that was queued before
\* it for the same server stays parked.
WaitersFIFO ==
    [][\A i \in SrvIdx : \A a, b \in 1..Len(queue[i]) :
          (/\ a < b
           /\ Parked(queue[i][a])
           /\ Parked(queue[i][b])
           /\ ~ParkedIn(queue[i][b], wk', allocs'))
          => ~ParkedIn(queue[i][a], wk', allocs')]_vars

\* two Gets are parked behind each other
TwoParkedWitness ==
    \E i \in SrvIdx :
        /\ Len(queue[i]) >= 2
        /\ Parked(queue[i][1])
        /\ Parked(queue[i][2])

\* the selection of the specification: walk (r + j) mod N for j = 0, 1, ...
\* and take the (k+1)-th server that passes the filter
Passes(srv, posting, n) == srv[n + 1].Posting \/ ~posting

RefOffsets(srv, posting, r) ==
    {j \in 0..(Len(srv) - 1) : Passes(srv, posting, (r + j) % Len(srv))}

RefSelect(srv, posting, r, k) ==
    LET J == RefOffsets(srv, posting, r)
        j == CHOOSE j \in J : Cardinality({x \in J : x < j}) = k
    IN (r + j) % Len(srv)

\* C7: for a POST the index Pool.Get sends to the controller is the index
\* of a server with Posting = true.
PostGetsPostingServer ==
    (sel.pc = "sent" /\ sel.posting) => servers[sel.result + 1].Posting

\* C8: the index Pool.Get sends to the controller is (r + j) mod N, j being
\* the (k+1)-th smallest offset whose server passes the filter.
SelectionIsReferenceWalk ==
    sel.pc = "sent" =>
        /\ Cardinality(RefOffsets(servers, sel.posting, sel.r)) > sel.retry
        /\ sel.result = RefSelect(servers, sel.posting, sel.r, sel.retry)

\* the attempts of the retry loop of a /m/ or /h/ request
LoopKind(rec) == rec.kind \in {"GET", "HEAD"}

AllProto(a) == \A j \in 1..Len(a) : a[j].out = "proto"

\* C9: in the GET and HEAD handlers a connection whose command returned an
\* NNTP protocol error is given back with Put, never Close, before the next
\* server is asked, and the next Pool.Get uses retry k+1; when every server
\* answered with a protocol error the status is 404 and every connection
\* went back with Put.
ProtoErrorFailsOver ==
    \A w \in Workers : LoopKind(wk[w]) =>
        LET a == wk[w].attempts IN
        /\ \A j \in 1..Len(a) : a[j].out = "proto" =>
              /\ a[j].disp # "close"
              /\ wk[w].pc \in {"get", "recv", "done"} => a[j].disp = "put"
              /\ j < Len(a) => a[j].disp = "put" /\ a[j + 1].k = a[j].k + 1
              /\ (j = Len(a) /\ wk[w].pc = "get") => wk[w].retries = a[j].k + 1
        /\ (wk[w].pc = "done" /\ Len(a) = NumSrv /\ AllProto(a)) =>
              /\ wk[w].status = 404
              /\ \A j \in 1..Len(a) : a[j].disp = "put"

\* every server answered a GET or HEAD with a protocol error
AllServersRefusedWitness ==
    \E w \in Workers :
        /\ LoopKind(wk[w])
        /\ wk[w].pc = "done"
        /\ Len(wk[w].attempts) = NumSrv
        /\ AllProto(wk[w].attempts)
        /\ wk[w].status = 404

\* the NNTP command or the body read of the last attempt failed in transport
TransportFailed(rec) ==
    /\ rec.attempts # <<>>
    /\ \/ rec.attempts[Len(rec.attempts)].out = "trans"
       \/ rec.body = "readerr"

LastAttempt(rec) == rec.attempts[Len(rec.attempts)]

\* the ARTICLE command of the request succeeded
ArticleFound(rec) ==
    /\ rec.kind \in {"GET", "DGET"}
    /\ rec.attempts # <<>>
    /\ LastAttempt(rec).out = "ok"

\* C11: in the buffered and in the streamed GET handler a connection whose
\* ARTICLE command succeeded goes back with Put only when the body has been
\* read to its end.
PutOnlyAfterBodyRead ==
    \A w \in Workers :
        (ArticleFound(wk[w]) /\ LastAttempt(wk[w]).disp = "put")
            => wk[w].body \in {"data", "empty"}

\* C12: a body longer than ArticleSizeLimit in the buffered GET handler is
\* answered 507 and its connection goes back with Close.
OversizeCloses ==
    \A w \in Workers :
        (wk[w].kind = "GET" /\ wk[w].body = "toolarge")
            => /\ wk[w].status = 507
               /\ wk[w].pc \in {"defer", "done"}
               /\ wk[w].pc = "defer" => CloseCalls(wk[w])
               /\ wk[w].pc = "done" => LastAttempt(wk[w]).disp = "close"

\* the POST command of the request was issued and the handler is through
Posted(rec) ==
    /\ rec.kind = "POST"
    /\ rec.attempts # <<>>
    /\ rec.pc = "done"
    /\ LastAttempt(rec).out \in {"ok", "posting", "proto", "trans"}

\* C13: POST: a posting failure gives 409 and any other protocol error 500,
\* both with Put; a transport error gives 500 with Close; success gives 200
\* with Put.
PostOutcomeMapping ==
    \A w \in Workers : Posted(wk[w]) =>
        LET a == LastAttempt(wk[w]) IN
        /\ a.out = "posting" => HttpStatus(wk[w]) = 409 /\ a.disp = "put"
        /\ a.out = "proto" => HttpStatus(wk[w]) = 500 /\ a.disp = "put"
        /\ a.out = "trans" => HttpStatus(wk[w]) = 500 /\ a.disp = "close"
        /\ a.out = "ok" => HttpStatus(wk[w]) = 200 /\ a.disp = "put"

\* a POST was refused by the server with the posting-failure code
PostConflictWitness ==
    \E w \in Workers :
        /\ Posted(wk[w])
        /\ LastAttempt(wk[w]).out = "posting"
        /\ LastAttempt(wk[w]).disp = "put"
        /\ HttpStatus(wk[w]) = 409

\* a POST for which Pool.Get returned ErrNoMoreServers
PostWithoutServer(rec) ==
    rec.kind = "POST" /\ rec.pc = "done" /\ rec.attempts = <<>>

\* C14: a POST that finds no Posting server is answered 500; no command is
\* issued and no further Get is made.
PostNoServerGives500 ==
    \A w \in Workers : PostWithoutServer(wk[w]) =>
        /\ HttpStatus(wk[w]) = 500
        /\ wk[w].posted = "none"

\* C15: a request for an article with an If-None-Match header is answered
\* before any Pool.Get: 304 for GET and HEAD, 412 for every other method.
IfNoneMatchAnswered ==
    \A w \in Workers :
        (wk[w].pc # "idle" /\ wk[w].kind \in Kinds
         /\ wk[w].req.ifNoneMatch)
            => /\ wk[w].pc = "done"
               /\ wk[w].attempts = <<>>
               /\ HttpStatus(wk[w]) =
                     IF wk[w].req.method \in {"GET", "HEAD"}
                     THEN 304 ELSE 412

\* the response to rng.s for a body of rng.size bytes has been composed
Composed == rng.pc = "done"

\* C16: every failure of parseRange on a non-empty body, an invalid header
\* as well as a list of ranges none of which overlaps the body, is answered
\* 416 with Content-Range: bytes */<size>.
RangeFailureIs416WithSize ==
    (Composed /\ parseRange(rng.s, rng.size).err # "nil")
        => /\ rng.out.status = 416
           /\ rng.out.contentRange = "bytes */" \o ToString(rng.size)

\* the ranges handleMessageGET serves: those parseRange returns, none when
\* together they are longer than the body
AcceptedRanges(s, size) ==
    LET ranges == parseRange(s, size).ranges IN
    IF sumRangesSize(ranges) > size THEN <<>> ELSE ranges

\* C17: the response to a GET of a body of n >= 1 bytes: without an accepted
\* range 200, Content-Length n and the whole body; with one accepted range
\* (start, length) 206, Content-Range bytes start-(start+length-1)/n,
\* Content-Length length and the bytes start .. start+length-1; with more
\* than one 206 and a multipart/byteranges content type.
ResponseComposition ==
    (Composed /\ parseRange(rng.s, rng.size).err = "nil") =>
        LET acc == AcceptedRanges(rng.s, rng.size)
            n == rng.size
            out == rng.out
        IN /\ Len(acc) = 0 =>
                 /\ out.status = 200
                 /\ out.contentLength = ToString(n)
                 /\ out.body = Article(n)
           /\ Len(acc) = 1 =>
                 /\ out.status = 206
                 /\ out.contentRange =
                       "bytes " \o ToString(acc[1].start) \o "-"
                       \o ToString(acc[1].start + acc[1].length - 1)
                       \o "/" \o ToString(n)
                 /\ out.contentLength = ToString(acc[1].length)
                 /\ out.body = [k \in 1..acc[1].length |->
                                  Article(n)[acc[1].start + k]]
           /\ Len(acc) > 1 =>
                 /\ out.status = 206
                 /\ out.contentType = "multipart/byteranges"

\* the last byte of a two byte body was asked for and sent
SingleRangeWitness ==
    /\ Composed
    /\ rng.s = <<"B", "1", "-">>
    /\ rng.out.status = 206
    /\ rng.out.contentRange = "bytes 1-1/2"
    /\ rng.out.contentLength = "1"
    /\ rng.out.body = <<2>>

\* C18: a request whose path does not start with /m/, /d/ or /h/ is given
\* to the static file handler: the article handler neither answers it 400
\* nor fails on a path of fewer than three characters.
OtherPathsAreStatic ==
    \A w \in Workers :
        (wk[w].pc # "idle" /\ wk[w].req.prefix = "other")
            => wk[w].kind = "static"

\* a POST request that reached handleMessagePOST
IsPost(rec) == rec.pc # "idle" /\ rec.kind = "POST"

\* the handler answered with code before any Pool.Get, and posted nothing
RefusedWith(rec, code) ==
    /\ rec.pc = "done"
    /\ HttpStatus(rec) = code
    /\ rec.attempts = <<>>
    /\ rec.posted = "none"

\* C19: a POST whose body is longer than ArticleSizeLimit is answered 507;
\* no connection is acquired and nothing, in particular no truncated body,
\* is posted.
OversizePostRefused ==
    \A w \in Workers :
        (IsPost(wk[w]) /\ wk[w].req.body = "toolarge")
            => RefusedWith(wk[w], 507)

\* C20: a POST with an empty body is answered 400 and nothing is posted.
EmptyPostRefused ==
    \A w \in Workers :
        (IsPost(wk[w]) /\ wk[w].req.body = "empty")
            => RefusedWith(wk[w], 400)

\* the article header of hdr.in has been made
HeaderMade == hdr.pc = "done" /\ hdr.out.status = 0

\* the part of a short Message-ID before its first "@"; all of it when
\* there is none
LocalPart(id) ==
    LET at == {i \in 1..Len(id) : id[i] = "@"} IN
    IF at = {} THEN id
    ELSE SubSeq(id, 1, (CHOOSE i \in at : \A j \in at : i <= j) - 1)

\* C21: the Subject of the posted article is the X-Usenet-Subject header if
\* it is not empty, else the query parameter s if it is not empty, else the
\* part of the short Message-ID before its first "@", and the whole short
\* Message-ID only when that part is empty.
SubjectSynthesis ==
    HeaderMade =>
        LET in == hdr.in
            id == Short(in.messageID)
        IN hdr.out.header.Subject =
              IF in.xSubject # <<>> THEN in.xSubject
              ELSE IF in.s # <<>> THEN in.s
              ELSE IF LocalPart(id) # <<>> THEN LocalPart(id)
              ELSE id

\* nobody waits for server i, no allocation for it is running and no handler
\* has a connection of it
Quiescent(i) ==
    /\ Allocating(allocs, i) = 0
    /\ \A w \in Workers :
          wk[w].pc \in {"recv", "cmd", "body", "loop_put", "defer"}
              => wk[w].target # i

\* C22: for every server i, once no Get waits for i, no allocation for i is
\* running and every borrower has Put or Closed its connection, counters[i]
\* returns to 0 (the idle connections expire) unless i is used again.
CountersReturnToZero ==
    \A i \in 0..(NumServers - 1) :
        Quiescent(i) ~> (counters[i] = 0 \/ ~Quiescent(i))

\* a request in one of the handlers with a retry loop, still running
InRetryLoop(rec) ==
    /\ rec.kind \in {"GET", "DGET", "HEAD"}
    /\ rec.pc \in {"get", "recv", "cmd", "body", "loop_put", "defer"}

\* C23: the servers a GET or HEAD request contacts are, in this order, the
\* servers the reference selection gives for retry 0, 1, ..: the retry
\* counter goes up by one with every attempt, no server is contacted twice
\* and there are at most as many attempts as servers.
RetryOrderIsReferenceWalk ==
    \A w \in Workers : InRetryLoop(wk[w]) =>
        LET a == wk[w].attempts IN
        /\ Len(a) <= NumSrv
        /\ \A j \in 1..Len(a) :
              /\ a[j].k = j - 1
              /\ a[j].srv = RefSelect(servers, FALSE, wk[w].r, j - 1)
        /\ \A j, k \in 1..Len(a) : j # k => a[j].srv # a[k].srv

\* C24: a cancelled request leaks nothing: the controller gives neither a
\* connection nor an allocation slot to a Get whose request was cancelled
\* while it was parked, and a connection whose NNTP command was running
\* when the request was cancelled goes back with Close.
CancelledLeaksNothing ==
    [][\A w \in Workers :
          /\ (wk[w].cancelled = "recv" /\ Parked(PoolGet(w)))
                => /\ wk'[w].pc # "cmd"
                   /\ ~BagIn(PoolGet(w), allocs')
          /\ wk[w].cancelled = "cmd" => ~PutStep(w)]_vars

\* handlers that have a connection of server i in their hands
Borrowers(i) ==
    {w \in Workers : wk[w].conn # Nil /\ Holds(w, wk[w].conn)
                       /\ InMap(connMap, wk[w].conn)
                       /\ MapIdx(connMap, wk[w].conn) = i}

\* the number of idle entries, of all servers, that hold connection c
IdleEntries(c) ==
    Cardinality({e \in [i : SrvIdx, k : 1..NumWorkers] :
                    /\ e.k <= Len(idles[e.i])
                    /\ idles[e.i][e.k].conn = c})

\* C25: in every reachable state counters[i] is the number of allocations
\* running for i plus the number of connections of i in the hands of
\* handlers plus the length of idles[i]; a connection is in at most one
\* handler's hands or once in one idle list, never both; no counter has
\* been taken below 0.
CountersAreAccurate ==
    /\ \A i \in SrvIdx :
          /\ counters[i] >= 0
          /\ counters[i] = Allocating(allocs, i) + Cardinality(Borrowers(i))
                               + Len(idles[i])
    /\ \A c \in 1..(nextConn - 1) :
          Cardinality({w \in Workers : Holds(w, c)}) + IdleEntries(c) <= 1

\* C26: the reply channel of a Get is used once: a Get that has been
\* answered is in no queue any more, no allocation is started for it, and
\* the controller never tries to send it a second result.
ReplyChannelUsedOnce ==
    /\ \A i \in SrvIdx : \A k \in 1..Len(queue[i]) :
          queue[i][k] # Answered(queue[i][k])
    /\ \A req \in BagToSet(allocs) : req # Answered(req)
    /\ ctl = "select"

\* the step in which the controller delivers an allocation error to w
AllocFailStep(w) ==
    /\ wk[w].pc = "recv"
    /\ wk'[w].pc = "done"
    /\ LastAttempt(wk'[w]).out = "allocerr"

\* the Gets parked in queue[i], by their place in the queue
ParkedAt(i) == {k \in 1..Len(queue[i]) : Parked(queue[i][k])}

\* C27: when the allocation started for a Get on server i fails, the
\* controller takes one off counters[i], gives the error to the requester
\* of that allocation and to nobody else, and drives the first Get parked
\* for i, which takes the freed slot; it starts no other allocation.
AllocFailureDrivesWaiter ==
    [][\A w \in Workers : AllocFailStep(w) =>
          LET i == wk[w].target
              rest == allocs (-) SetToBag({PoolGet(w)})
          IN /\ BagIn(PoolGet(w), allocs)
             /\ \A v \in Workers \ {w} : ~AllocFailStep(v)
             /\ counters'[i] - Allocating(allocs', i)
                   = counters[i] - 1 - Allocating(rest, i)
             /\ \A j \in SrvIdx \ {i} : counters'[j] = counters[j]
             /\ IF ParkedAt(i) = {}
                THEN allocs' = rest
                ELSE LET k == CHOOSE k \in ParkedAt(i) :
                                 \A l \in ParkedAt(i) : k <= l
                     IN allocs' = rest (+) SetToBag({queue[i][k]})]_vars

\* the connections of an idle list
ConnsOf(arr) == {arr[k].conn : k \in 1..Len(arr)}

\* where connection c is in an idle list
PlaceOf(arr, c) == CHOOSE k \in 1..Len(arr) : arr[k].conn = c

\* out is what is left of arr when exactly the entries of at least
\* IdleConnExpiry of age are taken out, the others keeping their order
LeavesTheYoung(arr, out) ==
    /\ ConnsOf(out) = {arr[k].conn : k \in {j \in 1..Len(arr) :
                                               arr[j].age < IdleConnExpiry}}
    /\ Len(out) = Cardinality(ConnsOf(out))
    /\ \A m, n \in 1..Len(out) :
          m < n => PlaceOf(arr, out[m].conn) < PlaceOf(arr, out[n].conn)

\* C28: a purge closes an idle entry if and only if its age is at least
\* IdleConnExpiry; no younger entry ever leaves an idle list by a purge,
\* and the entries that stay keep their order.
PurgeSelectsByAge ==
    /\ [](\A i \in SrvIdx :
              LeavesTheYoung(idles[i],
                             purgeCase(PoolState(LiveReqs)).idles[i]))
    /\ [][\A i \in SrvIdx :
            /\ \A k \in 1..Len(idles[i]) :
                  idles[i][k].conn \notin ConnsOf(idles'[i])
                      => idles[i][k].age >= IdleConnExpiry
            /\ counters'[i] # counters[i]
                  => LeavesTheYoung(idles[i], idles'[i])]_vars

\* a purge closed the oldest connection of a server and left two younger
\* ones, in their order
PurgedOldestWitness ==
    \E i \in SrvIdx :
        /\ Len(idles[i]) = 2
        /\ counters[i] = 2
        /\ idles[i][1].conn = IdleConn(i, 2)
        /\ idles[i][2].conn = IdleConn(i, 3)
        /\ InMap(connMap, IdleConn(i, 1))

\* the step in which a purge closes idle entries of server i: the list
\* gets shorter and no handler is given a connection
PurgeStep(i) == wk' = wk /\ Len(idles'[i]) < Len(idles[i])

\* C29: when a purge closes idle entries of server i, counters[i] goes down
\* by the number of entries closed, and after the step no Get is parked for
\* server i.
PurgeFreesSlots ==
    [][\A i \in SrvIdx : PurgeStep(i) =>
          /\ counters'[i] = counters[i] - (Len(idles[i]) - Len(idles'[i]))
          /\ \A k \in 1..Len(queue'[i]) :
                ~ParkedIn(queue'[i][k], wk', allocs')]_vars

\* a purge has closed the one connection of a server: the pool still knows
\* the connection, nobody has it, and the slot is free
PurgedWitness ==
    /\ ctl = "select"
    /\ \E e \in connMap :
          /\ counters[e.i] = 0
          /\ e.conn \notin IdleConns(idles)
          /\ \A w \in Workers : ~Holds(w, e.conn)

\* the servers that pass the filter of the Get under examination
PassingServers ==
    {n \in SrvIdx : Passes(servers, sel.posting, n)}

\* C30: Pool.Get returns ErrNoMoreServers if and only if fewer than
\* retry + 1 servers pass the filter (every server, or for a POST the
\* Posting servers); it then has sent nothing to the controller and the
\* pool is as it was.
NoMoreIffTooFewServers ==
    sel.pc \in {"sent", "nomore"} =>
        /\ sel.pc = "nomore" <=> Cardinality(PassingServers) < sel.retry + 1
        /\ sel.pc = "nomore" =>
              /\ sel.result = NoMore
              /\ connMap = {} /\ allocs = EmptyBag
              /\ \A i \in SrvIdx :
                    counters[i] = 0 /\ queue[i] = <<>> /\ idles[i] = <<>>

\* a second Posting server was asked for where there is only one
NoSecondPostingServerWitness ==
    /\ sel.pc = "nomore"
    /\ sel.posting
    /\ sel.retry = 1
    /\ Cardinality(PassingServers) = 1
    /\ NumSrv = MaxSelServers

\* the retry counts other than the one under examination for which
\* Pool.Get, with the same start index, filter and server list, sends
OtherRetries ==
    {k \in 0..(NumSrv - 1) :
        /\ k # sel.retry
        /\ k < Cardinality(PassingServers)
        /\ GetIndex(servers, sel.posting, sel.r, k) # NoMore}

\* C31: with the start index, the filter and the server list fixed, two
\* different retry counts, both smaller than the number of servers that
\* pass the filter, make Pool.Get send two different server indices.
RetriesSelectDistinctServers ==
    (sel.pc = "sent" /\ sel.retry < Cardinality(PassingServers)) =>
        \A k \in OtherRetries :
            GetIndex(servers, sel.posting, sel.r, k) # sel.result

\* the third attempt of a POST on three Posting servers, start index 2
ThirdRetryWitness ==
    /\ sel.pc = "sent"
    /\ sel.posting
    /\ sel.retry = 2
    /\ sel.r = 2
    /\ OtherRetries = {0, 1}
    /\ sel.result \in SrvIdx

\* the handlers that call checkPreconditions: handleMessageGET,
\* handleDotEncodedMessageGET and handleMessageHead
Conditional(rec) == rec.pc # "idle" /\ rec.kind \in {"GET", "DGET", "HEAD"}

\* the request has reached the pool or an NNTP server
WentUpstream(rec) ==
    \/ rec.pc \in {"get", "recv", "cmd", "body", "loop_put", "defer"}
    \/ rec.attempts # <<>>
    \/ rec.conn # Nil

\* C32: in the GET and /h/ handlers the precondition check has returned
\* before any Pool.Get or NNTP command; a request the check ends (304 or
\* 412) never has a connection, an attempt or a place in the pool.
CheckBeforeUpstream ==
    \A w \in Workers : Conditional(wk[w]) =>
        /\ WentUpstream(wk[w]) => wk[w].pre = "passed"
        /\ wk[w].pre \in {"passed", "ended"}
        /\ wk[w].pre = "ended" =>
              /\ wk[w].pc = "done"
              /\ ~WentUpstream(wk[w])
              /\ HttpStatus(wk[w]) \in {304, 412}
              /\ \A i \in SrvIdx :
                    \A k \in 1..Len(queue[i]) : queue[i][k].w # w

\* a GET with an If-None-Match header has its connection, the check done
CheckedThenConnectedWitness ==
    \E w \in Workers :
        /\ Conditional(wk[w])
        /\ wk[w].req.ifNoneMatch
        /\ wk[w].pre = "passed"
        /\ wk[w].pc = "cmd"
        /\ wk[w].conn # Nil

\* ---- RFC 7233 byte ranges, written from the grammar
\* the number a string of digits denotes
RECURSIVE RefNumber(_)
RefNumber(ds) ==
    IF ds = <<>> THEN 0
    ELSE 10 * RefNumber(SubSeq(ds, 1, Len(ds) - 1))
         + (CHOOSE v \in 0..2 : ToString(v) = ds[Len(ds)])

AllDigits(ds) == \A k \in 1..Len(ds) : ds[k] \in {"0", "1", "2"}

\* a byte-range-spec or suffix-byte-range-spec: digits "-" digits, one of
\* the two numbers at least being there
IsRangeSpec(t) ==
    \E k \in 1..Len(t) :
        /\ t[k] = "-"
        /\ AllDigits(SubSeq(t, 1, k - 1))
        /\ AllDigits(SubSeq(t, k + 1, Len(t)))
        /\ Len(t) > 1

\* first-byte-pos and last-byte-pos (or suffix-length) of a range spec
RefSpec(t) ==
    LET k == CHOOSE k \in 1..Len(t) : t[k] = "-"
        a == SubSeq(t, 1, k - 1)
        b == SubSeq(t, k + 1, Len(t))
    IN [a |-> RefNumber(a), hasA |-> a # <<>>,
        b |-> RefNumber(b), hasB |-> b # <<>>]

Least(x, y) == IF x < y THEN x ELSE y

\* what one range spec means for a representation of size bytes
RefRange(sp, size) ==
    IF ~sp.hasA
    THEN [kind |-> "range", start |-> size - Least(sp.b, size),
          length |-> Least(sp.b, size)]
    ELSE IF sp.a >= size THEN [kind |-> "skipped", start |-> 0, length |-> 0]
    ELSE IF ~sp.hasB
    THEN [kind |-> "range", start |-> sp.a, length |-> size - sp.a]
    ELSE IF sp.a > sp.b THEN [kind |-> "error", start |-> 0, length |-> 0]
    ELSE [kind |-> "range", start |-> sp.a,
          length |-> Least(sp.b, size - 1) - sp.a + 1]

\* the header under examination is bytes= and a list of range specs
SpecList ==
    IF HasBytesPrefix(rng.s) /\ Len(rng.s) > 1
       /\ \A k \in 1..Len(Split(Tail(rng.s))) :
              IsRangeSpec(Split(Tail(rng.s))[k])
    THEN [k \in 1..Len(Split(Tail(rng.s))) |->
             RefRange(RefSpec(Split(Tail(rng.s))[k]), rng.size)]
    ELSE <<>>

\* C33: parseRange gives every single range spec its RFC 7233 meaning:
\* -N is the last min(N, size) bytes, a- runs from a to the end, a-b from
\* a to min(b, size - 1), a-b with a > b is an error and a spec with
\* a >= size is skipped; a list of range specs none of which is an error
\* fails with errNoOverlap exactly when one is skipped and none accepted.
ParseRangeAgreesWithRFC ==
    (Composed /\ SpecList # <<>>) =>
        LET pr == parseRange(rng.s, rng.size)
            ref == SpecList
            kinds == {ref[k].kind : k \in 1..Len(ref)}
        IN /\ Len(ref) = 1 =>
                 /\ ref[1].kind = "range" =>
                       /\ pr.err = "nil"
                       /\ pr.ranges = <<[start |-> ref[1].start,
                                         length |-> ref[1].length]>>
                 /\ ref[1].kind = "error" => pr.err = "invalid"
                 /\ ref[1].kind = "skipped" =>
                       pr.err = "errNoOverlap" /\ pr.ranges = <<>>
           /\ "error" \notin kinds =>
                 /\ pr.err = "errNoOverlap" <=> kinds = {"skipped"}
                 /\ pr.err \in {"nil", "errNoOverlap"}

\* bytes=0-2 of a two byte body: the last position is brought down to 1
ClampedRangeWitness ==
    /\ Composed
    /\ rng.s = <<"B", "0", "-", "2">>
    /\ rng.size = 2
    /\ SpecList = <<[kind |-> "range", start |-> 0, length |-> 2]>>
    /\ parseRange(rng.s, rng.size).ranges = <<[start |-> 0, length |-> 2]>>

\* the number of bytes a list of ranges asks for
RECURSIVE TotalLength(_)
TotalLength(rs) ==
    IF Len(rs) = 0 THEN 0
    ELSE TotalLength(SubSeq(rs, 1, Len(rs) - 1)) + rs[Len(rs)].length

\* C34: when the ranges parsed from the header are together longer than
\* the body they are all dropped and the response is 200 with the whole
\* body and Content-Length the body size; when they are not, they are
\* kept and the response is 206 with the bytes of every one of them.
SumGuardDropsRanges ==
    (Composed /\ parseRange(rng.s, rng.size).err = "nil"
              /\ parseRange(rng.s, rng.size).ranges # <<>>) =>
        LET rs == parseRange(rng.s, rng.size).ranges
            n == rng.size
            out == rng.out
            bytes(ra) == [k \in 1..ra.length |-> ra.start + k]
        IN /\ TotalLength(rs) > n =>
                 /\ out.status = 200
                 /\ out.contentRange = ""
                 /\ out.contentLength = ToString(n)
                 /\ out.body = Article(n)
           /\ TotalLength(rs) <= n =>
                 /\ out.status = 206
                 /\ Len(rs) = 1 => out.body = bytes(rs[1])
                 /\ Len(rs) > 1 =>
                       out.body = [k \in 1..Len(rs) |-> bytes(rs[k])]

\* bytes=0-,0- of a two byte body: four bytes asked for, the body sent
RangesDroppedWitness ==
    /\ Composed
    /\ rng.s = <<"B", "0", "-", ",", "0", "-">>
    /\ rng.size = 2
    /\ TotalLength(parseRange(rng.s, rng.size).ranges) = 4
    /\ rng.out.status = 200
    /\ rng.out.body = <<1, 2>>

\* the handlers that have connection c in their hands
HoldersOf(c) == {w \in Workers : Holds(w, c)}

\* Get hands connection c to handler v in this step
HandedTo(v, c) == ~Holds(v, c) /\ wk'[v].conn = c /\ HoldsIn(wk'[v], c)

\* C35: a connection is in the hands of at most one handler; one that is
\* in a handler's hands is in no idle list; no connection is twice in the
\* idle lists; a connection a Get handed out is handed to another Get
\* only in the step that takes its borrower's Put.
ExclusiveBorrow ==
    /\ [](\A c \in 1..(nextConn - 1) :
            /\ Cardinality(HoldersOf(c)) <= 1
            /\ HoldersOf(c) # {} => c \notin IdleConns(idles)
            /\ IdleEntries(c) <= 1)
    /\ [][\A c \in 1..(nextConn - 1) : \A v \in Workers :
             HandedTo(v, c) => \A w \in HoldersOf(c) : PutStep(w)]_vars

\* a handler was given the connection another one has just Put: the
\* second borrower of a connection another handler first used
SecondBorrowerWitness ==
    \E v \in Workers : \E w \in Workers \ {v} :
        /\ wk[v].conn # Nil
        /\ Holds(v, wk[v].conn)
        /\ wk[w].pc = "done"
        /\ wk[w].attempts # <<>>
        /\ LastAttempt(wk[w]).disp = "put"
        /\ LastAttempt(wk[w]).srv = LastAttempt(wk[v]).srv
        /\ nextConn = 2

\* the attempt got a connection from Pool.Get
Obtained(att) == att.out \notin {"pending", "allocerr"}

\* the attempts of a handler whose connection it no longer works with:
\* all of them once it has returned, all but the last while it runs
PastAttempts(rec) ==
    IF rec.pc \in {"done", "get"} THEN 1..Len(rec.attempts)
    ELSE 1..(Len(rec.attempts) - 1)

\* C36: every connection a handler got from Pool.Get is given back once,
\* by Put or by Close: a handler that has returned, or gone on to its next
\* attempt, has disposed of the connection of every attempt that got one,
\* and no connection is disposed of a second time.
DisposedExactlyOnce ==
    /\ [](\A w \in Workers : \A k \in PastAttempts(wk[w]) :
            Obtained(wk[w].attempts[k])
                <=> wk[w].attempts[k].disp \in {"put", "close"})
    /\ [][\A w \in Workers :
             /\ (PutStep(w) \/ CloseStep(w)) =>
                   /\ wk[w].conn # Nil
                   /\ LastAttempt(wk[w]).disp = "none"
                   /\ Obtained(LastAttempt(wk[w]))
                   /\ Len(wk'[w].attempts) = Len(wk[w].attempts)
             /\ \A k \in 1..Len(wk[w].attempts) :
                   (/\ k <= Len(wk'[w].attempts)
                    /\ wk'[w].pc # "idle"
                    /\ wk'[w].attempts[k].disp # wk[w].attempts[k].disp)
                       => /\ wk[w].attempts[k].disp = "none"
                          /\ k = Len(wk[w].attempts)
                          /\ PutStep(w) \/ CloseStep(w)]_vars

\* a GET has returned after two attempts: the first connection was Put in
\* the retry loop, the second closed by the deferred function
TwoDisposalsWitness ==
    \E w \in Workers :
        /\ wk[w].pc = "done"
        /\ Len(wk[w].attempts) = 2
        /\ wk[w].attempts[1].out = "proto"
        /\ wk[w].attempts[1].disp = "put"
        /\ wk[w].attempts[2].out = "trans"
        /\ wk[w].attempts[2].disp = "close"

\* the connections of server i that exist or are being made: allocations
\* running, connections in handlers' hands, idle connections
Outstanding(i) ==
    Allocating(allocs, i) + Cardinality(Borrowers(i)) + Len(idles[i])

\* C37: while a Get is parked in the queue of server i, the server has no
\* idle connection and its outstanding connections are as many as
\* Connections[i]: no waiter is parked next to an idle connection or a
\* free slot.
NoLostWakeup ==
    \A i \in SrvIdx : ParkedAt(i) # {} =>
        /\ idles[i] = <<>>
        /\ Outstanding(i) = servers[i + 1].Connections

\* the buffered GET read the whole body, within the size limit
BodyReadWhole(rec) ==
    /\ rec.kind = "GET"
    /\ ArticleFound(rec)
    /\ rec.body = "data"
    /\ rec.pc \in {"defer", "done"}

\* C38: a connection whose ARTICLE command succeeded and whose body was
\* read whole within the size limit goes back with Put whatever becomes
\* of the Range header: a request answered 416 Puts its connection too.
RangeOutcomeKeepsConn ==
    \A w \in Workers : BodyReadWhole(wk[w]) =>
        /\ wk[w].pc = "defer" => PutCalls(wk[w])
        /\ wk[w].pc = "done" => LastAttempt(wk[w]).disp = "put"

\* C39: every range parseRange returns for a body of size >= 1 bytes has
\* 0 <= start, 0 <= length and start + length <= size, and the bytes the
\* handler takes from the buffer for it are bytes the body has.
RangesWithinBody ==
    (Composed /\ parseRange(rng.s, rng.size).err = "nil") =>
        LET rs == parseRange(rng.s, rng.size).ranges IN
        /\ \A k \in 1..Len(rs) :
              /\ 0 <= rs[k].start
              /\ 0 <= rs[k].length
              /\ rs[k].start + rs[k].length <= rng.size
        /\ (rng.out.status = 206 /\ Len(rs) = 1) =>
              /\ Len(rng.out.body) = rs[1].length
              /\ \A j \in 1..Len(rng.out.body) :
                    rng.out.body[j] \in 1..rng.size

\* the buffered GET found the article and its body has no bytes
EmptyBodyRead(rec) ==
    /\ rec.kind = "GET"
    /\ ArticleFound(rec)
    /\ rec.body = "empty"
    /\ rec.pc \in {"defer", "done"}

\* C40: a buffered GET of an article whose body is empty is answered 200
\* (with Content-Length 0) and its connection goes back with Put.
EmptyBodyIsServed ==
    \A w \in Workers : EmptyBodyRead(wk[w]) =>
        /\ HttpStatus(wk[w]) = 200
        /\ wk[w].err = "nil"
        /\ wk[w].pc = "defer" => PutCalls(wk[w])
        /\ wk[w].pc = "done" => LastAttempt(wk[w]).disp = "put"

====
